---- MODULE Spec2Model ----
(***************************************************************************)
(* A model of .github/workflows/update_sponsors.py: the script that        *)
(* fetches GitHub Sponsors and Liberapay patrons, classifies them into two *)
(* display tiers and splices the rendered lists into the README between    *)
(* paired marker comments.                                                 *)
(*                                                                         *)
(* Text is modelled as a sequence of tokens.  A token is one character, or *)
(* one whole sentinel comment:                                             *)
(*   "S"   the text  <!-- sponsors -->                                     *)
(*   "H"   the text  <!-- sponsors-highlighted -->                         *)
(*   "\\"  a backslash          "n", "x"  the letters n and x              *)
(*   "nl"  a newline            "t"       any character that is neither a  *)
(*                                        letter, a digit nor a backslash  *)
(* Decimal amounts are counted in hundredths (1.00 is 100).                *)
(***************************************************************************)
EXTENDS Integers, Sequences, FiniteSets, TLC

VARIABLES
    pc,          \* the position of the run
    args,        \* the parsed command line
    thresholds,  \* the Thresholds record built from args
    owner_idx,   \* fetch_github_sponsors: index of owner_type in the for loop
    after,       \* fetch_github_sponsors: the cursor of the next request, 0 is null
    gh_sponsors, \* fetch_github_sponsors: its local list sponsors
    requests,    \* every GraphQL request sent so far, in order
    pages,       \* the pages received for the current owner type, in order
    attempts,    \* how the attempt for each owner type ended, and on which errors
    csv_rows,    \* the rows of the Liberapay CSV export that was downloaded
    sponsors,    \* main's list sponsors
    regular_sponsors,      \* main's sorted list of the regular tier
    highlighted_sponsors,  \* main's sorted list of the highlighted tier
    original,    \* the README file as the run found it
    disk,        \* the README file on disk
    readme,      \* main's local variable readme
    writes,      \* how many times the README file was written
    exit_code,   \* the process exit status, -1 while running
    failure,     \* the exception that ended the run, "none" otherwise
    steps,       \* the steps of main that ran to completion, in order
    last_call,   \* the last call of replace_marker: its arguments and outcome
    classified,  \* the last amount given to monthly_tier, with its result
    sort_input,  \* the list given to sort_and_dedupe
    sort_output  \* the list sort_and_dedupe returned

argVars == <<args, thresholds>>
githubVars == <<owner_idx, after, gh_sponsors, requests, pages, attempts>>
mergeVars == <<csv_rows, sponsors, regular_sponsors, highlighted_sponsors>>
fileVars == <<original, disk, readme, writes, last_call>>
exitVars == <<exit_code, failure>>
pureVars == <<classified, sort_input, sort_output>>

vars == <<pc, argVars, githubVars, mergeVars, fileVars, exitVars, steps, pureVars>>

----------------------------------------------------------------------------
(* Program constants *)

WEEKS_PER_YEAR == 52
MONTHS_PER_YEAR == 12

(* Bounds of the model *)

MaxDocLen == 4     \* tokens of a README
MaxFragLen == 2    \* tokens of a replacement given to replace_marker directly
MaxNodes == 2      \* sponsorship nodes in the listing of one owner type
MaxPages == 2      \* pages in the listing of one owner type
MaxRows == 1       \* rows of a Liberapay CSV export, in the whole run
MaxRecordRows == 2 \* rows of a Liberapay CSV export, for the adapter alone
MaxSortLen == 3    \* sponsors in a list given to sort_and_dedupe directly

----------------------------------------------------------------------------
(* Text *)

DocTokens == {"S", "H", "t"}
FragTokens == {"S", "t", "\\", "n", "x"}

RECURSIVE SeqsUpTo(_, _)
SeqsUpTo(S, n) ==
    IF n = 0 THEN {<<>>}
    ELSE LET shorter == SeqsUpTo(S, n - 1)
         IN  shorter \cup {Append(s, x) : s \in {q \in shorter : Len(q) = n - 1}, x \in S}

Count(seq, tok) == Cardinality({i \in 1..Len(seq) : seq[i] = tok})

\* The text of the sentinel comment of a marker: f"<!-- {marker} -->".
Sentinel(marker) == IF marker = "sponsors" THEN "S" ELSE "H"

----------------------------------------------------------------------------
(* replace_marker *)

\* The least index >= from at which tok occurs in seq, 0 when there is none.
FirstAt(seq, tok, from) ==
    LET hits == {i \in from..Len(seq) : seq[i] = tok}
    IN  IF hits = {} THEN 0 ELSE CHOOSE i \in hits : \A j \in hits : i <= j

\* pattern.search: the leftmost sentinel and, lazily (.*? with DOTALL), the
\* nearest sentinel after it.
SearchRegion(content, sent) ==
    LET i == FirstAt(content, sent, 1)
        j == IF i = 0 THEN 0 ELSE FirstAt(content, sent, i + 1)
    IN  [found |-> j # 0, first |-> i, last |-> j]

\* The regular-expression module expands the replacement string as a
\* template: \\ is one backslash, \n a newline, a backslash before any other
\* letter is an error, a backslash before a non-letter stays as it is.
RECURSIVE ExpandFrom(_, _)
ExpandFrom(tpl, i) ==
    IF i > Len(tpl) THEN [ok |-> TRUE, out |-> <<>>]
    ELSE IF tpl[i] # "\\"
         THEN LET rest == ExpandFrom(tpl, i + 1)
              IN  [ok |-> rest.ok, out |-> <<tpl[i]>> \o rest.out]
    ELSE IF i = Len(tpl) THEN [ok |-> FALSE, out |-> <<>>]
    ELSE LET c == tpl[i + 1]
             rest == ExpandFrom(tpl, i + 2)
         IN  CASE c = "\\" -> [ok |-> rest.ok, out |-> <<"\\">> \o rest.out]
               [] c = "n"  -> [ok |-> rest.ok, out |-> <<"nl">> \o rest.out]
               [] c = "x"  -> [ok |-> FALSE, out |-> <<>>]
               [] OTHER    -> [ok |-> rest.ok, out |-> <<"\\", c>> \o rest.out]

ExpandTemplate(tpl) == ExpandFrom(tpl, 1)

\* pattern.subn(template, content, count=1): the template is compiled first,
\* then at most one match is replaced.
Subn(content, sent, template) ==
    LET exp == ExpandTemplate(template)
        m == SearchRegion(content, sent)
    IN  IF ~exp.ok THEN [err |-> "re.error", count |-> 0, doc |-> content]
        ELSE IF ~m.found THEN [err |-> "none", count |-> 0, doc |-> content]
        ELSE [err |-> "none", count |-> 1,
              doc |-> SubSeq(content, 1, m.first - 1) \o exp.out
                      \o SubSeq(content, m.last + 1, Len(content))]

\* replace_marker(content, marker, replacement): err is "none" when the
\* updated document doc is returned, else the exception raised.
ReplaceMarker(content, marker, replacement) ==
    LET sent == Sentinel(marker)
        r == Subn(content, sent, <<sent>> \o replacement \o <<sent>>)
    IN  IF r.err # "none" THEN [err |-> r.err, doc |-> <<>>]
        ELSE IF r.count # 1
             THEN [err |-> IF marker = "sponsors" THEN "RuntimeError: marker sponsors"
                           ELSE "RuntimeError: marker sponsors-highlighted",
                   doc |-> <<>>]
        ELSE [err |-> "none", doc |-> r.doc]

----------------------------------------------------------------------------
(* Amount and date parsing *)

\* A value handed to parse_decimal: a missing field, empty text, text that is
\* no number, a number (v hundredths), or the special values NaN and Infinity,
\* which Decimal() accepts.
Absent == [k |-> "absent", v |-> 0]
Empty == [k |-> "empty", v |-> 0]
Bad == [k |-> "bad", v |-> 0]
Num(v) == [k |-> "num", v |-> v]
NaN == [k |-> "nan", v |-> 0]
Infinity == [k |-> "inf", v |-> 0]
NoDecimal == [k |-> "none", v |-> 0]

parse_decimal(value) ==
    IF value.k \in {"absent", "empty", "bad"} THEN NoDecimal ELSE value

\* Decimal arithmetic and comparison.  An ordering comparison with NaN raises
\* decimal.InvalidOperation, reported here as "raise".
DecGe(a, b) ==
    IF a.k = "nan" \/ b.k = "nan" THEN "raise"
    ELSE IF a.k = "inf" THEN "true"
    ELSE IF b.k = "inf" THEN "false"
    ELSE IF a.v >= b.v THEN "true" ELSE "false"

DecLt(a, b) ==
    IF a.k = "nan" \/ b.k = "nan" THEN "raise"
    ELSE IF a.k = "inf" THEN "false"
    ELSE IF b.k = "inf" THEN "true"
    ELSE IF a.v < b.v THEN "true" ELSE "false"

\* cents / Decimal("100").  Every Decimal is counted in hundredths, so a whole
\* number of cents c is the count 100 * c and its quotient is the count c.
CentsToAmount(cents) ==
    IF cents.k = "num" THEN Num(cents.v \div 100) ELSE cents

\* A value handed to parse_started_at: empty text, malformed text, a calendar
\* date (t is its midnight), or a full timestamp with a zone offset (t is the
\* wall-clock time, off the offset; "Z" is offset 0).
NoTime == [ok |-> FALSE, t |-> 0]
EmptyText == [k |-> "empty", t |-> 0, off |-> 0]
BadText == [k |-> "bad", t |-> 0, off |-> 0]
DateText(t) == [k |-> "date", t |-> t, off |-> 0]
TimestampText(t, off) == [k |-> "ts", t |-> t, off |-> off]

\* In date-only mode "T00:00:00+00:00" is appended, so a full timestamp
\* becomes malformed; otherwise the time is normalised to UTC (a naive date
\* is read in the runner's zone, taken to be UTC).
parse_started_at(value, date_only) ==
    CASE value.k \in {"empty", "bad"} -> NoTime
      [] value.k = "date" -> [ok |-> TRUE, t |-> value.t]
      [] value.k = "ts" -> IF date_only THEN NoTime
                           ELSE [ok |-> TRUE, t |-> value.t - value.off]

----------------------------------------------------------------------------
(* Thresholds and tiers *)

\* build_thresholds: "ok", or the RuntimeError raised.
build_thresholds(a) ==
    IF \E value \in {a.github_regular_monthly_minimum,
                     a.github_highlighted_monthly_minimum,
                     a.liberapay_regular_weekly_minimum,
                     a.liberapay_highlighted_weekly_minimum} : value < 0
    THEN "RuntimeError: negative threshold"
    ELSE IF a.github_highlighted_monthly_minimum < a.github_regular_monthly_minimum
    THEN "RuntimeError: GitHub highlighted below regular"
    ELSE IF a.liberapay_highlighted_weekly_minimum < a.liberapay_regular_weekly_minimum
    THEN "RuntimeError: Liberapay highlighted below regular"
    ELSE "ok"

\* monthly_tier that wants more than the highlighted minimum.
monthly_tier_above(monthly_amount, regular_minimum, highlighted_minimum) ==
    LET hi == DecLt(Num(highlighted_minimum), monthly_amount)
        lo == DecGe(monthly_amount, Num(regular_minimum))
    IN  IF hi = "raise" THEN "raise"
        ELSE IF hi = "true" THEN "highlighted"
        ELSE IF lo = "true" THEN "regular"
        ELSE "none"

\* monthly_tier: "highlighted", "regular", "none" (None), or "raise".
monthly_tier(monthly_amount, regular_minimum, highlighted_minimum) ==
    LET hi == DecGe(monthly_amount, Num(highlighted_minimum))
        lo == DecGe(monthly_amount, Num(regular_minimum))
        below == DecLt(monthly_amount, Num(highlighted_minimum))
    IN  IF hi = "raise" THEN "raise"
        ELSE IF hi = "true" THEN "highlighted"
        ELSE IF lo = "true" /\ below = "true" THEN "regular"
        ELSE "none"

liberapay_tier(weekly_amount, th) ==
    LET hi == DecGe(weekly_amount, Num(th.liberapay_highlighted_weekly_minimum))
        lo == DecGe(weekly_amount, Num(th.liberapay_regular_weekly_minimum))
    IN  IF hi = "raise" THEN "raise"
        ELSE IF hi = "true" THEN "highlighted"
        ELSE IF lo = "true" THEN "regular"
        ELSE "none"

\* (weekly * 52 / 12).quantize(Decimal("0.01"), ROUND_HALF_UP); quantizing an
\* infinity raises decimal.InvalidOperation.  Only amounts >= 0 get here.
LiberapayMonthly(weekly_amount) ==
    IF weekly_amount.k = "num"
    THEN [ok |-> TRUE,
          amount |-> Num((2 * weekly_amount.v * WEEKS_PER_YEAR + MONTHS_PER_YEAR)
                         \div (2 * MONTHS_PER_YEAR))]
    ELSE [ok |-> FALSE, amount |-> weekly_amount]

----------------------------------------------------------------------------
(* Strings of the model, their case mappings and their code-point order *)

\* str.lower, str.upper and str.casefold on the strings the model uses.
Lower(str) ==
    CASE str = "A" -> "a" [] str = "B" -> "b" [] str = "P" -> "p" [] str = "X" -> "x"
      [] OTHER -> str
Upper(str) == CASE str = "usd" -> "USD" [] OTHER -> str
CaseFold(str) ==
    CASE str = "A" -> "a" [] str = "B" -> "b" [] str = "P" -> "p" [] str = "X" -> "x"
      [] OTHER -> str

\* The position of a string in code-point order: upper case, then the
\* backslash, then lower case.
StrOrd(str) ==
    CASE str = ""  -> 0
      [] str = "A" -> 1
      [] str = "B" -> 2
      [] str = "P" -> 3
      [] str = "X" -> 4
      [] str = "\\x" -> 5
      [] str = "a" -> 6
      [] str = "b" -> 7
      [] str = "github" -> 8
      [] str = "liberapay" -> 9
      [] str = "p" -> 10
      [] str = "q" -> 11
      [] str = "x" -> 12
      [] str = "y" -> 13

SUPPORTED_CURRENCIES == {"USD", "EUR"}

----------------------------------------------------------------------------
(* Platform adapters: one record *)

Sponsor(platform, key, name, profile_url, avatar_url, started_at, tier, monthly_amount, currency) ==
    [platform |-> platform, key |-> key, name |-> name,
     profile_url |-> profile_url, avatar_url |-> avatar_url,
     started_at |-> started_at, tier |-> tier,
     monthly_amount |-> monthly_amount, currency |-> currency]

NoSponsor == Sponsor("", "", "", <<>>, <<>>, 0, "", NoDecimal, "")

\* JSON truthiness of a boolean field that may be missing ("null").
Truthy(v) == v = "true"

\* Hidden with the test of isOneTimePayment left out.
HiddenIgnoringOneTime(node) ==
    \/ ~Truthy(node.isActive)
    \/ node.privacyLevel # "PUBLIC"

\* Lines 281-284: the node is not shown.
Hidden(node) ==
    \/ ~Truthy(node.isActive) \/ Truthy(node.isOneTimePayment)
    \/ node.privacyLevel # "PUBLIC"

\* The body of the loop over the nodes of one page.  what is "skip"
\* (continue), "append", or "raise" (decimal.InvalidOperation).
GithubNode(node, th) ==
    LET skip == [what |-> "skip", sponsor |-> NoSponsor]
        sponsor_login == node.login
        sponsor_url == node.url
        started_at == parse_started_at(node.createdAt, FALSE)
        cents == parse_decimal(node.monthlyPriceInCents)
        dollars == parse_decimal(node.monthlyPriceInDollars)
        monthly_amount == IF cents.k = "none" THEN dollars ELSE CentsToAmount(cents)
        tier == monthly_tier(monthly_amount, th.github_regular_monthly_minimum,
                             th.github_highlighted_monthly_minimum)
        display_name == IF node.name # "" THEN node.name ELSE sponsor_login
    IN  IF Hidden(node) THEN skip
        ELSE IF sponsor_login = "" \/ sponsor_url = "" THEN skip
        ELSE IF ~started_at.ok THEN skip
        ELSE IF cents.k = "none" /\ dollars.k = "none" THEN skip
        ELSE IF tier = "raise" THEN [what |-> "raise", sponsor |-> NoSponsor]
        ELSE IF tier = "none" THEN skip
        ELSE [what |-> "append",
              sponsor |-> Sponsor("github", Lower(sponsor_login), display_name,
                                  <<sponsor_url>>,
                                  <<"https://github.com/", sponsor_login, ".png">>,
                                  started_at.t, tier, monthly_amount, "USD")]

\* The body of the loop over the rows of the Liberapay CSV export.
LiberapayRow(row, th) ==
    LET skip == [what |-> "skip", sponsor |-> NoSponsor]
        raise == [what |-> "raise", sponsor |-> NoSponsor]
        sponsor_username == row.patron_username
        currency == Upper(row.donation_currency)
        weekly_amount == parse_decimal(row.weekly_amount)
        started_at == parse_started_at(row.pledge_date, TRUE)
        tier == liberapay_tier(weekly_amount, th)
        monthly == LiberapayMonthly(weekly_amount)
        display_name == IF row.patron_public_name # "" THEN row.patron_public_name
                        ELSE sponsor_username
        avatar_url == IF row.patron_avatar_url # "" THEN <<row.patron_avatar_url>>
                      ELSE <<"LIBERAPAY_AVATAR_FALLBACK">>
    IN  IF sponsor_username = "" THEN skip
        ELSE IF currency \notin SUPPORTED_CURRENCIES THEN skip
        ELSE IF weekly_amount.k = "none" THEN skip
        ELSE IF ~started_at.ok THEN skip
        ELSE IF tier = "raise" THEN raise
        ELSE IF tier = "none" THEN skip
        ELSE IF ~monthly.ok THEN raise
        ELSE [what |-> "append",
              sponsor |-> Sponsor("liberapay", Lower(sponsor_username), display_name,
                                  <<"https://liberapay.com/", sponsor_username>>,
                                  avatar_url, started_at.t, tier, monthly.amount,
                                  currency)]

\* The loop over the nodes of a page: it appends the sponsors in order to
\* the list so far and stops at the first node that raises.
RECURSIVE GithubNodesFrom(_, _, _, _)
GithubNodesFrom(nodes, th, i, acc) ==
    IF i > Len(nodes) THEN [raised |-> FALSE, sponsors |-> acc]
    ELSE LET r == GithubNode(nodes[i], th)
         IN  CASE r.what = "raise" -> [raised |-> TRUE, sponsors |-> acc]
               [] r.what = "skip" -> GithubNodesFrom(nodes, th, i + 1, acc)
               [] OTHER -> GithubNodesFrom(nodes, th, i + 1, Append(acc, r.sponsor))

GithubNodes(nodes, th, acc) == GithubNodesFrom(nodes, th, 1, acc)

\* The loop over the rows of the CSV export, likewise.
RECURSIVE LiberapayRowsFrom(_, _, _, _)
LiberapayRowsFrom(rows, th, i, acc) ==
    IF i > Len(rows) THEN [raised |-> FALSE, sponsors |-> acc]
    ELSE LET r == LiberapayRow(rows[i], th)
         IN  CASE r.what = "raise" -> [raised |-> TRUE, sponsors |-> acc]
               [] r.what = "skip" -> LiberapayRowsFrom(rows, th, i + 1, acc)
               [] OTHER -> LiberapayRowsFrom(rows, th, i + 1, Append(acc, r.sponsor))

LiberapayRows(rows, th) == LiberapayRowsFrom(rows, th, 1, <<>>)

----------------------------------------------------------------------------
(* Merge and rank *)

\* The dict of sort_and_dedupe as the sequence of its values: a new identity
\* is appended, a known one has its value replaced in place.
RECURSIVE DedupeFrom(_, _, _)
DedupeFrom(list, i, unique) ==
    IF i > Len(list) THEN unique
    ELSE LET sponsor == list[i]
             at == {j \in 1..Len(unique) : unique[j].platform = sponsor.platform
                                           /\ unique[j].key = sponsor.key}
         IN  IF at = {} THEN DedupeFrom(list, i + 1, Append(unique, sponsor))
             ELSE DedupeFrom(list, i + 1,
                             [unique EXCEPT ![CHOOSE j \in at : TRUE] = sponsor])

\* SortKey without the platform and the key.
SortKeyWithoutIdentity(sponsor) ==
    <<sponsor.started_at, StrOrd(CaseFold(sponsor.name)), 0, 0>>

\* The key of the sort: (started_at, name.casefold(), platform, key).
SortKey(sponsor) ==
    <<sponsor.started_at, StrOrd(CaseFold(sponsor.name)),
      StrOrd(sponsor.platform), StrOrd(sponsor.key)>>

\* Tuples of four compare lexicographically.
KeyLess(a, b) ==
    \E i \in 1..4 : a[i] < b[i] /\ \A j \in 1..(i - 1) : a[j] = b[j]

\* sorted(values, key=...): a stable sort; each element goes in after the
\* elements that do not compare greater.
RECURSIVE SortedFrom(_, _, _)
SortedFrom(values, i, acc) ==
    IF i > Len(values) THEN acc
    ELSE LET x == values[i]
             n == Cardinality({j \in 1..Len(acc) : ~KeyLess(SortKey(x), SortKey(acc[j]))})
         IN  SortedFrom(values, i + 1,
                        SubSeq(acc, 1, n) \o <<x>> \o SubSeq(acc, n + 1, Len(acc)))

sort_and_dedupe(list) == SortedFrom(DedupeFrom(list, 1, <<>>), 1, <<>>)

OfTier(list, tier) == SelectSeq(list, LAMBDA sponsor : sponsor.tier = tier)

----------------------------------------------------------------------------
(* Renderer *)

\* The characters of a string of the model, as tokens.
Chars(str) == IF str = "\\x" THEN <<"\\", "x">> ELSE <<str>>

RECURSIVE Flatten(_)
Flatten(parts) ==
    IF parts = <<>> THEN <<>> ELSE Chars(Head(parts)) \o Flatten(Tail(parts))

\* html.escape: & < > (and the quotes) become entities, all else stays.
RECURSIVE HtmlEscape(_)
HtmlEscape(text) ==
    IF text = <<>> THEN <<>>
    ELSE LET c == Head(text)
         IN  (CASE c = "&" -> <<"&amp;">>
                [] c = "<" -> <<"&lt;">>
                [] c = ">" -> <<"&gt;">>
                [] OTHER -> <<c>>) \o HtmlEscape(Tail(text))

render_sponsor(sponsor, width) ==
    <<"<a href=">> \o HtmlEscape(Flatten(sponsor.profile_url))
    \o <<"><img src=">> \o HtmlEscape(Flatten(sponsor.avatar_url))
    \o <<"width=", width, "alt=">> \o HtmlEscape(Chars(sponsor.name))
    \o <<"/></a>&nbsp;&nbsp;">>

RECURSIVE Render(_, _)
Render(list, width) ==
    IF list = <<>> THEN <<>>
    ELSE render_sponsor(Head(list), width) \o Render(Tail(list), width)

----------------------------------------------------------------------------
(* The run: main, called under the handler of the __main__ block *)

REGULAR_WIDTH == "80px"
HIGHLIGHTED_WIDTH == "120px"
OwnerTypes == <<"organization", "user">>

NoArgs ==
    [github_regular_monthly_minimum |-> 0, github_highlighted_monthly_minimum |-> 0,
     liberapay_regular_weekly_minimum |-> 0, liberapay_highlighted_weekly_minimum |-> 0,
     liberapay_username |-> ""]

Thresholds(a) ==
    [github_regular_monthly_minimum |-> a.github_regular_monthly_minimum,
     github_highlighted_monthly_minimum |-> a.github_highlighted_monthly_minimum,
     liberapay_regular_weekly_minimum |-> a.liberapay_regular_weekly_minimum,
     liberapay_highlighted_weekly_minimum |-> a.liberapay_highlighted_weekly_minimum]

NoCall == [content |-> <<>>, marker |-> "", replacement |-> <<>>, err |-> "none", doc |-> <<>>]

\* Fail that leaves the exit code of a success.
FailExitZero(err) ==
    /\ pc' = "done"
    /\ failure' = err
    /\ exit_code' = 0

\* An exception leaves main: a RuntimeError or URLError is printed by the
\* handler, which exits with 1; any other exception ends the interpreter with
\* a traceback and status 1.
Fail(err) ==
    /\ pc' = "done"
    /\ failure' = err
    /\ exit_code' = 1

\* Lines 365-366: parse_args and build_thresholds.
StartRun(a) ==
    /\ pc = "start"
    /\ args' = a
    /\ LET r == build_thresholds(a)
       IN  IF r = "ok"
           THEN /\ thresholds' = Thresholds(a)
                /\ pc' = "token"
                /\ steps' = Append(steps, "build_thresholds")
                /\ UNCHANGED exitVars
           ELSE /\ Fail(r)
                /\ UNCHANGED <<thresholds, steps>>
    /\ UNCHANGED <<githubVars, mergeVars, fileVars, pureVars>>

\* Lines 367-369: the credential check.
CheckToken(github_token) ==
    /\ pc = "token"
    /\ IF github_token # ""
       THEN /\ pc' = "github"
            /\ steps' = Append(steps, "github_token")
            /\ UNCHANGED exitVars
       ELSE /\ Fail("RuntimeError: GITHUB_TOKEN is required")
            /\ UNCHANGED steps
    /\ UNCHANGED <<argVars, githubVars, mergeVars, fileVars, pureVars>>

\* IsNotFound that is content with one NOT_FOUND among the errors.
AnyNotFound(errors) == "NOT_FOUND" \in errors

\* Lines 268-269: the errors of a response, as the set of their types
\* ("null" for an error without a type).
IsNotFound(errors) == errors = {"NOT_FOUND"}

\* Line 332: the cursor of the next request.
NextAfter(page_info) == page_info.endCursor

\* Accumulate that starts every page with an empty list.
AccumulateFresh(list, nodes, th) == GithubNodes(nodes, th, <<>>)

\* Lines 280-326: the list after the nodes of one more page.
Accumulate(list, nodes, th) == GithubNodes(nodes, th, list)

\* Lines 270-271 and 276-277: the list is emptied and the while loop left;
\* the for loop goes on to the next owner type with fresh locals, and past
\* the last one line 334 raises.
NextOwnerType(outcome, errors) ==
    /\ attempts' = Append(attempts, [owner |-> OwnerTypes[owner_idx], outcome |-> outcome,
                                     errors |-> errors])
    /\ gh_sponsors' = <<>>
    /\ IF owner_idx < Len(OwnerTypes)
       THEN /\ owner_idx' = owner_idx + 1
            /\ after' = 0
            /\ pages' = <<>>
            /\ UNCHANGED <<pc, exitVars>>
       ELSE /\ Fail("RuntimeError: Unable to find GitHub organization or user")
            /\ UNCHANGED <<owner_idx, after, pages>>
    /\ UNCHANGED <<sponsors, steps>>

\* Lines 246-332: one turn of the while loop of fetch_github_sponsors, the
\* request and the handling of its response; on return, lines 371-372 of main.
GithubRequest(response) ==
    /\ pc = "github"
    /\ requests' = Append(requests, [owner |-> OwnerTypes[owner_idx], after |-> after])
    /\ IF response.net # "ok"
       THEN /\ Fail("URLError")
            /\ UNCHANGED <<owner_idx, after, gh_sponsors, pages, attempts, sponsors, steps>>
       ELSE IF response.errors # {}
       THEN IF IsNotFound(response.errors)
            THEN NextOwnerType("not_found", response.errors)
            ELSE /\ Fail("RuntimeError: GitHub GraphQL query failed")
                 /\ attempts' = Append(attempts, [owner |-> OwnerTypes[owner_idx],
                                                  outcome |-> "query_failed",
                                                  errors |-> response.errors])
                 /\ UNCHANGED <<owner_idx, after, gh_sponsors, pages, sponsors, steps>>
       ELSE IF ~response.container
       THEN NextOwnerType("no_container", response.errors)
       ELSE LET r == Accumulate(gh_sponsors, response.nodes, thresholds)
            IN  /\ pages' = Append(pages, response)
                /\ gh_sponsors' = r.sponsors
                /\ UNCHANGED owner_idx
                /\ IF r.raised
                   THEN /\ Fail("decimal.InvalidOperation")
                        /\ UNCHANGED <<after, attempts, sponsors, steps>>
                   ELSE IF ~response.hasNextPage
                   THEN /\ attempts' = Append(attempts, [owner |-> OwnerTypes[owner_idx],
                                                         outcome |-> "returned",
                                                         errors |-> response.errors])
                        /\ sponsors' = r.sponsors
                        /\ steps' = Append(steps, "fetch_github_sponsors")
                        /\ pc' = IF args.liberapay_username # "" THEN "liberapay" ELSE "rank"
                        /\ UNCHANGED <<after, exitVars>>
                   ELSE /\ after' = NextAfter(response)
                        /\ UNCHANGED <<pc, attempts, sponsors, steps, exitVars>>
    /\ UNCHANGED <<argVars, csv_rows, regular_sponsors, highlighted_sponsors,
                   fileVars, pureVars>>

\* Line 373: fetch_liberapay_sponsors, its result put before the GitHub list.
LiberapayFetch(csv) ==
    /\ pc = "liberapay"
    /\ IF csv.net # "ok"
       THEN /\ Fail("URLError")
            /\ UNCHANGED <<csv_rows, sponsors, steps>>
       ELSE LET r == LiberapayRows(csv.rows, thresholds)
            IN  /\ csv_rows' = csv.rows
                /\ IF r.raised
                   THEN /\ Fail("decimal.InvalidOperation")
                        /\ UNCHANGED <<sponsors, steps>>
                   ELSE /\ sponsors' = r.sponsors \o sponsors
                        /\ steps' = Append(steps, "fetch_liberapay_sponsors")
                        /\ pc' = "rank"
                        /\ UNCHANGED exitVars
    /\ UNCHANGED <<argVars, githubVars, regular_sponsors, highlighted_sponsors,
                   fileVars, pureVars>>

\* Lines 375-383: the two tier lists, then the README is read.
RankAndRead ==
    /\ pc = "rank"
    /\ regular_sponsors' = sort_and_dedupe(OfTier(sponsors, "regular"))
    /\ highlighted_sponsors' = sort_and_dedupe(OfTier(sponsors, "highlighted"))
    /\ readme' = disk
    /\ pc' = "replace_highlighted"
    /\ steps' = Append(steps, "read")
    /\ UNCHANGED <<argVars, githubVars, csv_rows, sponsors, original, disk, writes, last_call,
                   exitVars, pureVars>>

\* One call readme = replace_marker(readme, marker, replacement) of main.
Replace(marker, replacement, next) ==
    LET r == ReplaceMarker(readme, marker, replacement)
    IN  /\ last_call' = [content |-> readme, marker |-> marker,
                         replacement |-> replacement, err |-> r.err, doc |-> r.doc]
        /\ IF r.err = "none"
           THEN /\ readme' = r.doc
                /\ pc' = next
                /\ steps' = Append(steps, marker)
                /\ UNCHANGED exitVars
           ELSE /\ Fail(r.err)
                /\ UNCHANGED <<readme, steps>>
        /\ UNCHANGED <<argVars, githubVars, mergeVars, original, disk, writes, pureVars>>

\* Lines 385-389.
ReplaceHighlighted(replacement) ==
    /\ pc = "replace_highlighted"
    /\ Replace("sponsors-highlighted", replacement, "replace_regular")

\* Lines 390-394.
ReplaceRegular(replacement) ==
    /\ pc = "replace_regular"
    /\ Replace("sponsors", replacement, "write")

\* Lines 396-399 and 404: the README is written and the process exits with 0.
WriteReadme ==
    /\ pc = "write"
    /\ disk' = readme
    /\ writes' = writes + 1
    /\ exit_code' = 0
    /\ pc' = "done"
    /\ steps' = Append(steps, "write")
    /\ UNCHANGED <<argVars, githubVars, mergeVars, original, readme, last_call, failure, pureVars>>

\* monthly_tier called as on lines 305-309, with the GitHub minimums.
Classify(amount) ==
    /\ pc = "token"
    /\ classified' = [amount |-> amount,
                      tier |-> monthly_tier(Num(amount),
                                            thresholds.github_regular_monthly_minimum,
                                            thresholds.github_highlighted_monthly_minimum)]
    /\ pc' = "classified"
    /\ UNCHANGED <<argVars, githubVars, mergeVars, fileVars, exitVars, steps,
                   sort_input, sort_output>>

\* A caller builds the list it will give to sort_and_dedupe.
AddSponsor(sponsor) ==
    /\ pc = "sort_input"
    /\ Len(sort_input) < MaxSortLen
    /\ sort_input' = Append(sort_input, sponsor)
    /\ UNCHANGED <<pc, argVars, githubVars, mergeVars, fileVars, exitVars, steps,
                   classified, sort_output>>

SortCall ==
    /\ pc = "sort_input"
    /\ sort_output' = sort_and_dedupe(sort_input)
    /\ pc' = "sorted"
    /\ UNCHANGED <<argVars, githubVars, mergeVars, fileVars, exitVars, steps,
                   classified, sort_input>>

----------------------------------------------------------------------------
(* Inputs *)

ArgsOver(github_values, liberapay_values, usernames) ==
    {[github_regular_monthly_minimum |-> gr, github_highlighted_monthly_minimum |-> gh,
      liberapay_regular_weekly_minimum |-> lr, liberapay_highlighted_weekly_minimum |-> lh,
      liberapay_username |-> u] :
        gr \in github_values, gh \in github_values,
        lr \in liberapay_values, lh \in liberapay_values, u \in usernames}

AcceptedArgs(github_values, liberapay_values, usernames) ==
    {a \in ArgsOver(github_values, liberapay_values, usernames) : build_thresholds(a) = "ok"}

\* A sponsorship node that passes every filter: cents is its price in cents.
Node(login, cents, t) ==
    [isActive |-> "true", isOneTimePayment |-> "false", privacyLevel |-> "PUBLIC",
     login |-> login, url |-> "u", name |-> "", createdAt |-> TimestampText(t, 0),
     monthlyPriceInCents |-> Num(cents * 100), monthlyPriceInDollars |-> Absent]

\* Nodes that differ in what the visibility filter reads: one that passes,
\* one that fails each test, two with a missing flag, and a second sponsor.
VisibilityNodes ==
    {Node("x", 100, 1),
     [Node("x", 100, 1) EXCEPT !.isActive = "false"],
     [Node("x", 100, 1) EXCEPT !.isOneTimePayment = "true"],
     [Node("x", 100, 1) EXCEPT !.privacyLevel = "PRIVATE"],
     [Node("x", 100, 1) EXCEPT !.isActive = "null"],
     [Node("x", 100, 1) EXCEPT !.isOneTimePayment = "null"],
     Node("y", 200, 2)}

\* Nodes that differ in their amount, date, login and name.
RecordNodes ==
    {Node("x", 100, 1),
     [Node("x", 100, 1) EXCEPT !.monthlyPriceInCents = Absent,
                               !.monthlyPriceInDollars = Num(200)],
     [Node("x", 100, 1) EXCEPT !.monthlyPriceInCents = Absent],
     [Node("x", 100, 1) EXCEPT !.monthlyPriceInCents = Bad],
     [Node("x", 100, 1) EXCEPT !.monthlyPriceInCents = NaN],
     [Node("x", 100, 1) EXCEPT !.monthlyPriceInCents = Infinity],
     [Node("x", 100, 1) EXCEPT !.createdAt = BadText],
     [Node("y", 200, 3) EXCEPT !.createdAt = TimestampText(3, 1), !.name = "B"],
     [Node("x", 100, 1) EXCEPT !.login = ""]}

\* The nodes of the whole run: one sponsor twice, at two prices and in two
\* spellings of the login.
MainNodes == {Node("x", 100, 1), Node("X", 200, 2)}

Row(username, currency, weekly, date) ==
    [patron_username |-> username, donation_currency |-> currency,
     weekly_amount |-> weekly, pledge_date |-> date,
     patron_public_name |-> "", patron_avatar_url |-> ""]

RecordRows ==
    {Row("p", "USD", Num(100), DateText(1)),
     Row("q", "usd", Num(200), DateText(2)),
     Row("p", "GBP", Num(100), DateText(1)),
     Row("p", "EUR", Bad, DateText(1)),
     Row("p", "EUR", NaN, DateText(1)),
     Row("p", "EUR", Infinity, DateText(1)),
     Row("p", "USD", Num(100), BadText),
     Row("p", "USD", Num(100), TimestampText(1, 0)),
     [Row("P", "USD", Num(500), DateText(1)) EXCEPT !.patron_public_name = "A",
                                                   !.patron_avatar_url = "av"]}

\* The rows of the whole run: a patron, and one whose name holds a backslash.
MainRows ==
    {Row("p", "USD", Num(100), DateText(1)),
     [Row("q", "EUR", Num(200), DateText(2)) EXCEPT !.patron_public_name = "\\x"]}

ErrorPayloads == {{"NOT_FOUND"}, {"FORBIDDEN"}, {"NOT_FOUND", "FORBIDDEN"}, {"null"}}

RECURSIVE NodeCount(_)
NodeCount(ps) == IF ps = <<>> THEN 0 ELSE Len(Head(ps).nodes) + NodeCount(Tail(ps))

Response(net, errors, container, nodes, hasNextPage, endCursor) ==
    [net |-> net, errors |-> errors, container |-> container, nodes |-> nodes,
     hasNextPage |-> hasNextPage, endCursor |-> endCursor]

\* What the GraphQL endpoint may answer to the next request: a transport
\* error, an errors payload, a response without the owner, or one more page of
\* a listing of at most MaxPages pages and MaxNodes nodes, with a fresh cursor.
Responses(node_set) ==
    {Response("URLError", {}, FALSE, <<>>, FALSE, 0)}
    \cup {Response("ok", e, c, <<>>, FALSE, 0) : e \in ErrorPayloads, c \in BOOLEAN}
    \cup {Response("ok", {}, FALSE, <<>>, FALSE, 0)}
    \cup {Response("ok", {}, TRUE, ns, more, Len(pages) + 1) :
            ns \in SeqsUpTo(node_set, MaxNodes - NodeCount(pages)),
            more \in IF Len(pages) + 1 < MaxPages THEN BOOLEAN ELSE {FALSE}}

Csvs(row_set, max_rows) ==
    {[net |-> "URLError", rows |-> <<>>]}
    \cup {[net |-> "ok", rows |-> rows] : rows \in SeqsUpTo(row_set, max_rows)}

----------------------------------------------------------------------------
(* Specifications *)

ArgIdle == args = NoArgs /\ thresholds = Thresholds(NoArgs)
ArgsGiven(a) == args = a /\ thresholds = Thresholds(a)
GithubIdle ==
    /\ owner_idx = 1 /\ after = 0 /\ gh_sponsors = <<>>
    /\ requests = <<>> /\ pages = <<>> /\ attempts = <<>>
MergeIdle ==
    /\ csv_rows = <<>> /\ sponsors = <<>>
    /\ regular_sponsors = <<>> /\ highlighted_sponsors = <<>>
ExitIdle == exit_code = -1 /\ failure = "none"
PureIdle == classified = [amount |-> 0, tier |-> ""] /\ sort_input = <<>> /\ sort_output = <<>>

\* The whole run, on a README with no region, the highlighted region alone,
\* the highlighted region inside the regular one, or both regions in turn.
MainValues == {-100, 100, 200}
MainWeeklyValues == {-100, 100}
MainDocs ==
    {<<>>, <<"t", "H", "H">>, <<"S", "H", "H", "S">>,
     <<"t", "H", "t", "H", "t", "S", "t", "S", "t">>}

Init ==
    /\ pc = "start"
    /\ ArgIdle /\ GithubIdle /\ MergeIdle /\ ExitIdle /\ PureIdle
    /\ disk \in MainDocs /\ original = disk /\ readme = <<>> /\ writes = 0 /\ last_call = NoCall
    /\ steps = <<>>

Next ==
    \/ \E a \in ArgsOver(MainValues, MainWeeklyValues, {"", "p"}) : StartRun(a)
    \/ \E github_token \in {"", "token"} : CheckToken(github_token)
    \/ \E response \in Responses(MainNodes) : GithubRequest(response)
    \/ \E csv \in Csvs(MainRows, MaxRows) : LiberapayFetch(csv)
    \/ RankAndRead
    \/ ReplaceHighlighted(Render(highlighted_sponsors, HIGHLIGHTED_WIDTH))
    \/ ReplaceRegular(Render(regular_sponsors, REGULAR_WIDTH))
    \/ WriteReadme

Spec == Init /\ [][Next]_vars

\* replace_marker on any README and any replacement, called as main calls it.
Docs == SeqsUpTo(DocTokens, MaxDocLen)
Fragments == SeqsUpTo(FragTokens, MaxFragLen)

InitMarker ==
    /\ pc = "replace_highlighted"
    /\ ArgIdle /\ GithubIdle /\ MergeIdle /\ ExitIdle /\ PureIdle
    /\ disk \in Docs /\ original = disk /\ readme = disk /\ writes = 0 /\ last_call = NoCall
    /\ steps = <<"build_thresholds", "github_token", "fetch_github_sponsors", "read">>

NextMarker ==
    \/ \E replacement \in Fragments : ReplaceHighlighted(replacement)
    \/ \E replacement \in Fragments : ReplaceRegular(replacement)
    \/ WriteReadme

SpecMarker == InitMarker /\ [][NextMarker]_vars

\* build_thresholds on any four values, then monthly_tier on any amount.
TierValues == {-100, 0, 100, 200}
TierAmounts == {-50, 0, 50, 100, 150, 200, 250}

InitTier ==
    /\ pc = "start"
    /\ ArgIdle /\ GithubIdle /\ MergeIdle /\ ExitIdle /\ PureIdle
    /\ disk = <<>> /\ original = disk /\ readme = <<>> /\ writes = 0 /\ last_call = NoCall
    /\ steps = <<>>

NextTier ==
    \/ \E a \in ArgsOver(TierValues, TierValues, {""}) : StartRun(a)
    \/ \E amount \in TierAmounts : Classify(amount)

SpecTier == InitTier /\ [][NextTier]_vars

\* sort_and_dedupe on any list of sponsors.
SortSponsors ==
    {Sponsor(platform, key, name, <<>>, <<>>, 1, "regular", Num(100), "USD") :
        platform \in {"github", "liberapay"}, key \in {"x", "y"}, name \in {"a", "A", "B"}}
    \cup {Sponsor("github", key, "a", <<>>, <<>>, 2, "regular", Num(100), "USD") :
            key \in {"x", "y"}}

InitSort ==
    /\ pc = "sort_input"
    /\ ArgIdle /\ GithubIdle /\ MergeIdle /\ ExitIdle /\ PureIdle
    /\ disk = <<>> /\ original = disk /\ readme = <<>> /\ writes = 0 /\ last_call = NoCall
    /\ steps = <<>>

NextSort ==
    \/ \E sponsor \in SortSponsors : AddSponsor(sponsor)
    \/ SortCall

SpecSort == InitSort /\ [][NextSort]_vars

\* fetch_github_sponsors against any sequence of responses.
InitGithub ==
    /\ pc = "github"
    /\ \E a \in AcceptedArgs({100, 200}, {0}, {""}) : ArgsGiven(a)
    /\ GithubIdle /\ MergeIdle /\ ExitIdle /\ PureIdle
    /\ disk = <<>> /\ original = disk /\ readme = <<>> /\ writes = 0 /\ last_call = NoCall
    /\ steps = <<"build_thresholds", "github_token">>

NextGithub == \E response \in Responses(VisibilityNodes) : GithubRequest(response)

SpecGithub == InitGithub /\ [][NextGithub]_vars

\* fetch_github_sponsors against any listing of two sponsors over its pages.
PageNodes == {Node("x", 100, 1), Node("y", 200, 2)}

NextPages == \E response \in Responses(PageNodes) : GithubRequest(response)

SpecPages == InitGithub /\ [][NextPages]_vars

\* The script runs to its end: a pending request is sent and answered.
FairSpecPages == SpecPages /\ WF_vars(NextPages)

\* Both adapters on records with any amount, date and currency.
InitRecords ==
    /\ pc = "github"
    /\ \E a \in AcceptedArgs({100}, {100, 200}, {"p"}) : ArgsGiven(a)
    /\ GithubIdle /\ MergeIdle /\ ExitIdle /\ PureIdle
    /\ disk = <<>> /\ original = disk /\ readme = <<>> /\ writes = 0 /\ last_call = NoCall
    /\ steps = <<"build_thresholds", "github_token">>

NextRecords ==
    \/ \E response \in Responses(RecordNodes) : GithubRequest(response)
    \/ \E csv \in Csvs(RecordRows, MaxRecordRows) : LiberapayFetch(csv)

SpecRecords == InitRecords /\ [][NextRecords]_vars

----------------------------------------------------------------------------
(* Properties of replace_marker *)

Range(seq) == {seq[i] : i \in 1..Len(seq)}

\* The number of regions  sentinel ... sentinel  of a document, left to right.
Regions(content, marker) == Count(content, Sentinel(marker)) \div 2

\* The document with its first region replaced by sentinel, fragment,
\* sentinel: the text before the first sentinel and the text after the second
\* one stay as they are.
Spliced(content, marker, fragment) ==
    LET sent == Sentinel(marker)
        at == {i \in 1..Len(content) : content[i] = sent}
        open == CHOOSE i \in at : \A j \in at : i <= j
        close == CHOOSE i \in at \ {open} : \A j \in at \ {open} : i <= j
    IN  SubSeq(content, 1, open - 1) \o <<sent>> \o fragment \o <<sent>>
        \o SubSeq(content, close + 1, Len(content))

MarkerError(marker) ==
    IF marker = "sponsors" THEN "RuntimeError: marker sponsors"
    ELSE "RuntimeError: marker sponsors-highlighted"

\* C1: whenever the document given to replace_marker holds no region of the
\* marker, or two or more of them, the call raises and returns no updated
\* document (the run ends there), and what it raises is the RuntimeError that
\* names the marker; the last part is stated for a replacement that holds no
\* backslash.
C1_NotExactlyOneRegionRaises ==
    (last_call.marker # "" /\ Regions(last_call.content, last_call.marker) # 1)
        => /\ last_call.err # "none"
           /\ last_call.doc = <<>>
           /\ pc = "done" /\ failure = last_call.err
           /\ "\\" \notin Range(last_call.replacement)
                => last_call.err = MarkerError(last_call.marker)

\* C2: whenever the document given to replace_marker holds exactly one region
\* of the marker, whatever the replacement, the call returns the text before
\* the region, the sentinel, the replacement verbatim, the sentinel and the
\* text after the region; this holds for both calls that main makes.
C2_OneRegionSplicedVerbatim ==
    (last_call.marker # "" /\ Regions(last_call.content, last_call.marker) = 1)
        => /\ last_call.err = "none"
           /\ last_call.doc = Spliced(last_call.content, last_call.marker,
                                      last_call.replacement)
           /\ readme = last_call.doc

----------------------------------------------------------------------------
(* Properties of the whole run *)

IsPrefix(s, t) == Len(s) <= Len(t) /\ s = SubSeq(t, 1, Len(s))

\* The steps of a run that succeeds, in order.
ExpectedSteps ==
    <<"build_thresholds", "github_token", "fetch_github_sponsors">>
    \o (IF args.liberapay_username # "" THEN <<"fetch_liberapay_sponsors">> ELSE <<>>)
    \o <<"read", "sponsors-highlighted", "sponsors", "write">>

\* C3: the README is written at most once, and only after the threshold
\* validation, the credential check, the GitHub fetch, the Liberapay fetch
\* when asked for, and both replacements succeeded, in that order; a step that
\* fails leaves the file as it was, ends the run (no further step is taken)
\* and gives exit code 1; exit code 0 means the file holds the README with
\* both regions replaced by the rendered lists.
C3_NoPartialOutput ==
    /\ writes <= 1
    /\ IsPrefix(steps, ExpectedSteps)
    /\ writes = 1 <=> steps = ExpectedSteps
    /\ writes = 0 => disk = original
    /\ failure # "none" <=> exit_code = 1
    /\ failure # "none" => /\ pc = "done" /\ writes = 0 /\ disk = original
                           /\ ~ENABLED Next
    /\ pc = "done" <=> exit_code \in {0, 1}
    /\ exit_code = 0 =>
        LET highlighted == Render(highlighted_sponsors, HIGHLIGHTED_WIDTH)
            regular == Render(regular_sponsors, REGULAR_WIDTH)
            first == ReplaceMarker(original, "sponsors-highlighted", highlighted)
            second == ReplaceMarker(first.doc, "sponsors", regular)
        IN  /\ writes = 1
            /\ Regions(original, "sponsors-highlighted") >= 1 /\ first.err = "none"
            /\ Regions(first.doc, "sponsors") >= 1 /\ second.err = "none"
            /\ disk = second.doc
            /\ "\\" \notin Range(highlighted) \cup Range(regular) =>
                  disk = Spliced(Spliced(original, "sponsors-highlighted", highlighted),
                                 "sponsors", regular)

\* The second replacement failed after the first one succeeded in memory:
\* the file is untouched.
C3_Witness ==
    /\ pc = "done" /\ failure = MarkerError("sponsors")
    /\ "sponsors-highlighted" \in Range(steps)
    /\ highlighted_sponsors # <<>>
    /\ Regions(original, "sponsors-highlighted") = 1

Identity(sponsor) == <<sponsor.platform, sponsor.key>>

\* C4: the records of the merged list that share (platform, key) collapse to
\* the last of them, so across the regular and the highlighted list that main
\* renders every (platform, key) of the merged list appears exactly once, as
\* its last record, also when the colliding records carry different tiers.
C4_OneRecordPerIdentity ==
    "read" \in Range(steps) =>
        LET rendered == regular_sponsors \o highlighted_sponsors
        IN  \A id \in {Identity(sponsors[i]) : i \in 1..Len(sponsors)} :
                LET from == {i \in 1..Len(sponsors) : Identity(sponsors[i]) = id}
                    last == CHOOSE i \in from : \A j \in from : j <= i
                    shown == {i \in 1..Len(rendered) : Identity(rendered[i]) = id}
                IN  /\ Cardinality(shown) = 1
                    /\ \A i \in shown : rendered[i] = sponsors[last]

----------------------------------------------------------------------------
(* Properties of fetch_github_sponsors *)

RECURSIVE AllNodes(_)
AllNodes(ps) == IF ps = <<>> THEN <<>> ELSE Head(ps).nodes \o AllNodes(Tail(ps))

\* The node is active, is no one-time payment and is public.
Visible(node) ==
    /\ node.isActive = "true"
    /\ node.isOneTimePayment # "true"
    /\ node.privacyLevel = "PUBLIC"

\* C5: the sponsors that fetch_github_sponsors holds and returns are those it
\* would get from the visible nodes alone (active, not a one-time payment,
\* public): each comes from such a node, a node that is not visible adds
\* nothing, whatever its amount and the thresholds, and so nothing of it
\* is in either list that main renders from the returned sponsors.
C5_VisibleOnly ==
    failure = "none" =>
        /\ gh_sponsors
             = GithubNodes(SelectSeq(AllNodes(pages), Visible), thresholds, <<>>).sponsors
        /\ \A i \in 1..Len(gh_sponsors) :
             \E node \in Range(AllNodes(pages)) :
                /\ Visible(node)
                /\ gh_sponsors[i].key = Lower(node.login)
                /\ gh_sponsors[i].started_at = node.createdAt.t - node.createdAt.off
        /\ pc = "rank" =>
             /\ sponsors = gh_sponsors
             /\ \A tier \in {"regular", "highlighted"} :
                  Range(sort_and_dedupe(OfTier(sponsors, tier))) \subseteq Range(gh_sponsors)

\* The listing held a one-time payment priced in the highlighted tier and a
\* visible node, and the adapter returned.
C5_Witness ==
    /\ pc = "rank"
    /\ sponsors # <<>>
    /\ \E node \in Range(AllNodes(pages)) :
          /\ node.isOneTimePayment = "true" /\ node.isActive = "true"
          /\ node.privacyLevel = "PUBLIC"
          /\ monthly_tier(CentsToAmount(node.monthlyPriceInCents),
                          thresholds.github_regular_monthly_minimum,
                          thresholds.github_highlighted_monthly_minimum) = "highlighted"

LoginNotFound == "RuntimeError: Unable to find GitHub organization or user"
QueryFailed == "RuntimeError: GitHub GraphQL query failed"

\* The organization is asked first; the user is asked only after the attempt
\* for the organization ended unresolved; an errors payload of types
\* {NOT_FOUND} ends the attempt without failing the run; any other errors
\* payload fails the run with the query-failed error.
C9_Dispatch ==
    /\ requests # <<>> => requests[1].owner = "organization"
    /\ \A i \in 1..Len(requests) :
         requests[i].owner = "user" =>
            /\ attempts # <<>>
            /\ attempts[1].owner = "organization"
            /\ attempts[1].outcome \in {"not_found", "no_container"}
            /\ \A j \in i..Len(requests) : requests[j].owner = "user"
    /\ \A i \in 1..Len(attempts) :
         /\ attempts[i].owner = OwnerTypes[i]
         /\ attempts[i].errors = {"NOT_FOUND"} <=> attempts[i].outcome = "not_found"
         /\ attempts[i].errors \notin {{}, {"NOT_FOUND"}} <=> attempts[i].outcome = "query_failed"
         /\ (attempts[i].outcome = "not_found" /\ i = Len(attempts)) =>
               /\ failure # QueryFailed
               /\ i < Len(OwnerTypes) => owner_idx = i + 1
               /\ (i < Len(OwnerTypes) /\ requests[Len(requests)].owner = OwnerTypes[i]) =>
                     pc = "github" /\ failure = "none"
         /\ attempts[i].outcome = "query_failed" =>
               i = Len(attempts) /\ pc = "done" /\ failure = QueryFailed
    /\ failure = QueryFailed =>
         attempts # <<>> /\ attempts[Len(attempts)].outcome = "query_failed"

\* C9 as stated: the dispatch above, and the run fails with the login-not-found
\* error exactly when both attempts yield no container and no explicit error.
C9_Original ==
    /\ C9_Dispatch
    /\ failure = LoginNotFound <=>
         /\ Len(attempts) = 2
         /\ \A i \in 1..2 : attempts[i].outcome = "no_container" /\ attempts[i].errors = {}

\* C9 amended: the dispatch above, and the run fails with the login-not-found
\* error exactly when each of the two attempts ended unresolved, on an errors
\* payload of types {NOT_FOUND} or on a response without the owner.
C9_NotFoundWhenBothUnresolved ==
    /\ C9_Dispatch
    /\ failure = LoginNotFound <=>
         /\ Len(attempts) = 2
         /\ \A i \in 1..2 : attempts[i].outcome \in {"not_found", "no_container"}

\* The organization answered NOT_FOUND, the user had no container.
C9_Witness ==
    /\ failure = LoginNotFound
    /\ Len(attempts) = 2
    /\ attempts[1].outcome = "not_found"
    /\ attempts[2].outcome = "no_container"

\* The sponsors accepted from each page, page after page.
RECURSIVE ConcatAccepted(_)
ConcatAccepted(ps) ==
    IF ps = <<>> THEN <<>>
    ELSE GithubNodes(Head(ps).nodes, thresholds, <<>>).sponsors \o ConcatAccepted(Tail(ps))

CurrentRequests == SelectSeq(requests, LAMBDA r : r.owner = OwnerTypes[owner_idx])

C10_OnePageAtATime ==
    /\ CurrentRequests # <<>> => CurrentRequests[1].after = 0
    /\ Len(pages) <= Len(CurrentRequests) /\ Len(CurrentRequests) <= Len(pages) + 1
    /\ \A i \in 2..Len(CurrentRequests) :
         /\ pages[i - 1].hasNextPage
         /\ CurrentRequests[i].after = pages[i - 1].endCursor
    /\ \A i \in 1..(Len(pages) - 1) : pages[i].hasNextPage
    /\ (pc = "github" /\ pages # <<>>) =>
         /\ pages[Len(pages)].hasNextPage
         /\ Len(CurrentRequests) = Len(pages)
         /\ after = pages[Len(pages)].endCursor
    /\ failure = "none" => gh_sponsors = ConcatAccepted(pages)
    /\ pc = "rank" =>
         /\ pages # <<>> /\ ~pages[Len(pages)].hasNextPage
         /\ Len(CurrentRequests) = Len(pages)
         /\ sponsors = ConcatAccepted(pages)
         /\ attempts[Len(attempts)] = [owner |-> OwnerTypes[owner_idx],
                                       outcome |-> "returned", errors |-> {}]

\* C10: for each owner type the pages are requested one at a time, the first
\* with a null cursor and each later one with the endCursor of the response
\* before it; a further page is requested exactly while the last response
\* reports hasNextPage; the adapter ends, and when it returns, the list is the
\* sponsors accepted from every page of that owner type, in page order.
C10_Pagination == []C10_OnePageAtATime /\ <>(pc # "github")

\* Two pages of one owner type were fetched, each gave a sponsor.
C10_Witness ==
    /\ pc = "rank"
    /\ Len(pages) = 2
    /\ Len(sponsors) = 2
    /\ \A i \in 1..2 : Len(pages[i].nodes) = 1
    /\ sponsors[1] # sponsors[2]

----------------------------------------------------------------------------
(* Properties of the records, the tiers and the order *)

\* The amount of the node is text of a finite number and its date a timestamp.
GoodNode(node) ==
    /\ \/ node.monthlyPriceInCents.k = "num"
       \/ node.monthlyPriceInCents.k = "absent" /\ node.monthlyPriceInDollars.k = "num"
    /\ node.createdAt.k \in {"date", "ts"}

\* The amount of the row is text of a finite number, its date a calendar date
\* and its currency a supported one.
GoodRow(row) ==
    /\ row.weekly_amount.k = "num"
    /\ row.pledge_date.k = "date"
    /\ Upper(row.donation_currency) \in SUPPORTED_CURRENCIES

\* C6: no record with an unparsable or unsupported amount, date or currency
\* aborts the run, and the sponsors of each adapter are those it produces from
\* the input without such records.
C6_BadRecordsSkipped ==
    /\ failure # "decimal.InvalidOperation"
    /\ failure = "none" =>
         gh_sponsors = GithubNodes(SelectSeq(AllNodes(pages), GoodNode), thresholds, <<>>).sponsors
    /\ (pc = "rank" /\ args.liberapay_username # "") =>
         sponsors = LiberapayRows(SelectSeq(csv_rows, GoodRow), thresholds).sponsors
                      \o gh_sponsors

Rank(tier) == CASE tier = "none" -> 0 [] tier = "regular" -> 1 [] tier = "highlighted" -> 2

TierOf(amount) ==
    monthly_tier(Num(amount), thresholds.github_regular_monthly_minimum,
                 thresholds.github_highlighted_monthly_minimum)

\* C7: under thresholds that build_thresholds accepted, 0 <= regular minimum
\* <= highlighted minimum, monthly_tier never gives the greater of two amounts
\* the lower tier, and it gives highlighted exactly from the highlighted
\* minimum on, regular exactly from the regular minimum up to but not
\* including the highlighted minimum, and no tier otherwise.
C7_TierMonotonic ==
    pc \in {"token", "classified"} =>
        LET regular_minimum == thresholds.github_regular_monthly_minimum
            highlighted_minimum == thresholds.github_highlighted_monthly_minimum
        IN  /\ 0 <= regular_minimum /\ regular_minimum <= highlighted_minimum
            /\ \A a1, a2 \in TierAmounts :
                 a1 < a2 => Rank(TierOf(a1)) <= Rank(TierOf(a2))
            /\ \A amount \in TierAmounts :
                 /\ TierOf(amount) = "highlighted" <=> amount >= highlighted_minimum
                 /\ TierOf(amount) = "regular"
                      <=> (regular_minimum <= amount /\ amount < highlighted_minimum)
                 /\ TierOf(amount) \in {"highlighted", "regular", "none"}
            /\ pc = "classified" =>
                 /\ classified.tier = TierOf(classified.amount)
                 /\ regular_minimum = highlighted_minimum => classified.tier # "regular"

\* An amount at the two equal minimums was classified highlighted.
C7_Witness ==
    /\ pc = "classified"
    /\ thresholds.github_regular_monthly_minimum = thresholds.github_highlighted_monthly_minimum
    /\ thresholds.github_highlighted_monthly_minimum > 0
    /\ classified.amount = thresholds.github_highlighted_monthly_minimum
    /\ classified.tier = "highlighted"

\* The order (started_at, case-insensitive name, platform, key), field by field.
Before(a, b) ==
    \/ a.started_at < b.started_at
    \/ /\ a.started_at = b.started_at
       /\ \/ StrOrd(CaseFold(a.name)) < StrOrd(CaseFold(b.name))
          \/ /\ CaseFold(a.name) = CaseFold(b.name)
             /\ \/ StrOrd(a.platform) < StrOrd(b.platform)
                \/ a.platform = b.platform /\ StrOrd(a.key) < StrOrd(b.key)

Rearrangements(n) == {f \in [1..n -> 1..n] : \A i, j \in 1..n : f[i] = f[j] => i = j}

DistinctIdentities(list) ==
    \A i, j \in 1..Len(list) :
        (list[i].platform = list[j].platform /\ list[i].key = list[j].key) => i = j

\* C8: the output of sort_and_dedupe is strictly ascending under (started_at,
\* case-insensitive name, platform, key); two of its sponsors with the same
\* started_at and case-insensitive name stand in the order of platform, then
\* key; and on an input of pairwise distinct (platform, key) every permutation
\* of the input gives the same output, which holds the sponsors of the input.
C8_StrictTotalOrder ==
    pc = "sorted" =>
        /\ \A i \in 1..(Len(sort_output) - 1) : Before(sort_output[i], sort_output[i + 1])
        /\ \A i, j \in 1..Len(sort_output) :
             (/\ i < j
              /\ sort_output[i].started_at = sort_output[j].started_at
              /\ CaseFold(sort_output[i].name) = CaseFold(sort_output[j].name)) =>
                \/ StrOrd(sort_output[i].platform) < StrOrd(sort_output[j].platform)
                \/ /\ sort_output[i].platform = sort_output[j].platform
                   /\ StrOrd(sort_output[i].key) < StrOrd(sort_output[j].key)
        /\ DistinctIdentities(sort_input) =>
             /\ Range(sort_output) = Range(sort_input)
             /\ Len(sort_output) = Len(sort_input)
             /\ \A f \in Rearrangements(Len(sort_input)) :
                  sort_and_dedupe([i \in 1..Len(sort_input) |-> sort_input[f[i]]]) = sort_output

\* Three sponsors of one started_at and one case-insensitive name, given in
\* descending order, came out by platform, then key.
C8_Witness ==
    /\ pc = "sorted"
    /\ Len(sort_input) = 3
    /\ DistinctIdentities(sort_input)
    /\ \A i \in 1..3 : sort_input[i].started_at = 1 /\ CaseFold(sort_input[i].name) = "a"
    /\ \E i \in 1..3 : sort_input[i].name = "A"
    /\ sort_output = <<sort_input[3], sort_input[2], sort_input[1]>>

====
